---- MODULE Spec2Model ----
(***************************************************************************)
(* Model of the amazon_agent tool pipeline (amazon_tools.py):              *)
(*   fetch_search_results -> parse_amazon_results ->                       *)
(*   weighted_product_ranking, run in that order by the chain of           *)
(*   amazon_agent.py, sharing the files last_search.html and               *)
(*   products_table.csv.                                                   *)
(*                                                                         *)
(* Text is a sequence of one-character strings.  Numbers are fixed point:  *)
(* prices and ratings in hundredths, log1p values in ten-thousandths,      *)
(* normalised values and scores in ten-thousandths (floor of the real      *)
(* value).  A DataFrame cell is a tagged value: number, text or NaN.       *)
(***************************************************************************)
EXTENDS Integers, Sequences, FiniteSets, TLC

\* ------------------------------------------------------------------ bounds
\* Longest page, in listing containers, that is parsed and ranked.
MaxItems == 3
\* Longest page, in listing containers, a response carries in the
\* specifications that run the fetch.
MaxServed == 1

\* ------------------------------------------------------------------ text
Digits == {"0", "1", "2", "3", "4", "5", "6", "7", "8", "9"}

DigitVal(c) ==
  CASE c = "0" -> 0 [] c = "1" -> 1 [] c = "2" -> 2 [] c = "3" -> 3
    [] c = "4" -> 4 [] c = "5" -> 5 [] c = "6" -> 6 [] c = "7" -> 7
    [] c = "8" -> 8 [] c = "9" -> 9

\* Python's str.isspace for the characters of the model's texts.
IsSpace(c) == c = " "

IsDigits(s) == \A i \in 1..Len(s) : s[i] \in Digits

\* int("...") of a run of decimal digits.
RECURSIVE ParseInt(_)
ParseInt(s) ==
  IF s = <<>> THEN 0
  ELSE 10 * ParseInt(SubSeq(s, 1, Len(s) - 1)) + DigitVal(s[Len(s)])

\* s[from:] and s[:to]
Drop(s, n) == SubSeq(s, n + 1, Len(s))
Take(s, n) == SubSeq(s, 1, IF n < Len(s) THEN n ELSE Len(s))

StartsWith(s, p) == Len(p) <= Len(s) /\ SubSeq(s, 1, Len(p)) = p

\* str.replace(pat, rep): every non-overlapping occurrence, left to right.
RECURSIVE Replace(_, _, _)
Replace(s, pat, rep) ==
  IF s = <<>> THEN <<>>
  ELSE IF StartsWith(s, pat) THEN rep \o Replace(Drop(s, Len(pat)), pat, rep)
  ELSE <<s[1]>> \o Replace(Drop(s, 1), pat, rep)

\* str.strip()
RECURSIVE LStrip(_)
LStrip(s) == IF s # <<>> /\ IsSpace(s[1]) THEN LStrip(Drop(s, 1)) ELSE s
RECURSIVE RStrip(_)
RStrip(s) ==
  IF s # <<>> /\ IsSpace(s[Len(s)]) THEN RStrip(Take(s, Len(s) - 1)) ELSE s
Strip(s) == RStrip(LStrip(s))

\* Index of the first c in s, 0 when there is none.
RECURSIVE IndexOf(_, _, _)
IndexOf(s, c, i) ==
  IF i > Len(s) THEN 0 ELSE IF s[i] = c THEN i ELSE IndexOf(s, c, i + 1)

\* ------------------------------------------------------------- cells
\* A DataFrame cell: a number (fixed point), a text, or NaN.
Num(n) == [kind |-> "num", val |-> n, text |-> <<>>]
Str(t) == [kind |-> "str", val |-> 0, text |-> t]
NaN == [kind |-> "nan", val |-> 0, text |-> <<>>]
IsNaN(c) == c.kind = "nan"

NA == <<"N", "/", "A">>

\* Fixed-point resolutions of the model.
Hundred == 10 * 10
Scale == 100 * 100

\* The first two fraction digits of a decimal fraction, as hundredths.
FracHundredths(f) ==
  IF Len(f) = 0 THEN 0
  ELSE IF Len(f) = 1 THEN 10 * DigitVal(f[1])
  ELSE 10 * DigitVal(f[1]) + DigitVal(f[2])

\* float(s) on the texts of the model: digits with at most one "." (not "."
\* alone), surrounding whitespace allowed; anything else raises ValueError,
\* which the callers turn into NaN.  The value is in hundredths.
ParseFloat(s0) ==
  LET s == Strip(s0)
      dot == IndexOf(s, ".", 1)
      ip == IF dot = 0 THEN s ELSE Take(s, dot - 1)
      fp == IF dot = 0 THEN <<>> ELSE Drop(s, dot)
  IN IF s = <<>> \/ ~IsDigits(ip) \/ ~IsDigits(fp) \/ (ip = <<>> /\ fp = <<>>)
     THEN NaN
     ELSE Num(Hundred * ParseInt(ip) + FracHundredths(fp))

\* ------------------------------------------------------------- markup
\* An element the selectors of parse_amazon_results look for inside a
\* listing container: absent, or present with its text (for the anchor: its
\* href attribute).
NoTag == [present |-> FALSE, text |-> <<>>]
Tag(t) == [present |-> TRUE, text |-> t]

\* One div[data-component-type=s-search-result] of a page.
Container(h2, offscreen, href, rating, reviews, bold) ==
  [h2 |-> h2, offscreen |-> offscreen, href |-> href,
   rating |-> rating, reviews |-> reviews, bold |-> bold]

\* The listing containers the server's pages are made of.
ItemA == Container(Tag(<<"A">>), Tag(<<"1","9","9",",","9","9"," ","T","L">>),
                   Tag(<<"/", "a">>), Tag(<<"4", ",", "5">>),
                   Tag(<<"(", "1", "2", "0", ")">>),
                   Tag(<<"1", "5", " ", "O", "c", "a">>))
ItemB == Container(Tag(<<" ", "B", " ">>), Tag(<<"1","4","9",",","9","9"," ","T","L">>),
                   Tag(<<"/", "b">>), Tag(<<"3", ",", "8", " ", "/", "5">>),
                   Tag(<<"5", "0">>),
                   Tag(<<"2", "0", " ", "O", "c", "a">>))
ItemC == Container(Tag(<<"C">>), Tag(<<"2","9","9",",","9","9"," ","T","L">>),
                   Tag(<<"h", "/", "c">>), Tag(<<"4", ",", "9">>),
                   Tag(<<"5">>), NoTag)
\* A second listing with the title of ItemA and other values everywhere.
ItemA2 == Container(Tag(<<"A">>), Tag(<<"1",".","0","9","9",",","5"," ","t","l">>),
                    NoTag, Tag(<<"n", "e", "w">>), Tag(<<"n", "e", "w">>),
                    Tag(<<"2", "6", " ", "A", "r", "a">>))
\* No price element; everything else as good as it gets.
ItemE == Container(Tag(<<"E">>), NoTag, Tag(<<"/", "e">>), Tag(<<"5">>),
                   Tag(<<"9", "9", "9">>),
                   Tag(<<"3", " ", "o", "c", "a", "k">>))
\* No heading; price, rating, reviews and delivery equal to those of ItemB.
ItemF == Container(NoTag, Tag(<<"1","4","9",",","9","9"," ","T","L">>),
                   Tag(<<"/", "f">>), Tag(<<"3", ",", "8">>), Tag(<<"5", "0">>),
                   Tag(<<"2", "0", " ", "O", "c", "a">>))

Containers == {ItemA, ItemB, ItemC, ItemA2, ItemE, ItemF}

RECURSIVE SeqsUpTo(_, _)
SeqsUpTo(S, n) ==
  IF n = 0 THEN {<<>>}
  ELSE LET shorter == SeqsUpTo(S, n - 1)
       IN shorter \cup {Append(s, x) : s \in shorter, x \in S}

\* The pages last_search.html can hold.
Pages == SeqsUpTo(Containers, MaxItems)
\* The pages a status-200 response carries.
ServedPages == SeqsUpTo(Containers, MaxServed)

\* ------------------------------------------------ parse_amazon_results
Origin == <<"https://www.amazon.com.tr">>

\* The maximal run of digits of s that starts at i.
RECURSIVE DigitRunEnd(_, _)
DigitRunEnd(s, i) ==
  IF i <= Len(s) /\ s[i] \in Digits THEN DigitRunEnd(s, i + 1) ELSE i

\* Index of the first digit of s at or after i, 0 when there is none.
RECURSIVE FirstDigit(_, _)
FirstDigit(s, i) ==
  IF i > Len(s) THEN 0
  ELSE IF s[i] \in Digits THEN i ELSE FirstDigit(s, i + 1)

\* re.search(r'(\d+(?:,\d+)?)', s).group(1), <<>> when there is no match.
RatingMatch(s) ==
  LET b == FirstDigit(s, 1)
      e == DigitRunEnd(s, b)
      e2 == DigitRunEnd(s, e + 1)
  IN IF b = 0 THEN <<>>
     ELSE IF e <= Len(s) /\ s[e] = "," /\ e2 > e + 1
          THEN SubSeq(s, b, e2 - 1)
          ELSE SubSeq(s, b, e - 1)

ExtractRating(tag) ==
  LET m == RatingMatch(Strip(tag.text))
  IN IF tag.present /\ m # <<>>
     THEN ParseFloat(Replace(m, <<",">>, <<".">>))
     ELSE Str(NA)

\* re.search(r'(\d+)', s): int(group(1)), 0 when there is no match.
ExtractReviewCount(tag) ==
  LET b == FirstDigit(tag.text, 1)
  IN IF tag.present /\ b # 0
     THEN Num(ParseInt(SubSeq(tag.text, b, DigitRunEnd(tag.text, b) - 1)))
     ELSE Num(0)

ExtractLink(tag) ==
  IF tag.present
  THEN Str(IF StartsWith(tag.text, <<"/">>) THEN Origin \o tag.text ELSE tag.text)
  ELSE Str(NA)

TextOrNA(tag) == Str(IF tag.present THEN Strip(tag.text) ELSE NA)

\* The dictionary appended to all_products for one container.
ExtractRecord(item) ==
  [Title |-> TextOrNA(item.h2),
   Price |-> TextOrNA(item.offscreen),
   Rating |-> ExtractRating(item.rating),
   Reviews |-> ExtractReviewCount(item.reviews),
   Delivery |-> TextOrNA(item.bold),
   Link |-> ExtractLink(item.href)]

ExtractAll(page) == [i \in 1..Len(page) |-> ExtractRecord(page[i])]

\* Faulty variant of DropDuplicates: keep='last'.
RECURSIVE DropDuplicatesKeepLast(_)
DropDuplicatesKeepLast(rows) ==
  IF rows = <<>> THEN <<>>
  ELSE LET rest == Tail(rows)
       IN IF \E j \in 1..Len(rest) : rest[j].Title = Head(rows).Title
          THEN DropDuplicatesKeepLast(rest)
          ELSE <<Head(rows)>> \o DropDuplicatesKeepLast(rest)

\* duplicated(keep='first'): one pass over the rows with the set of the
\* titles seen so far; a row whose title was seen is dropped.
RECURSIVE DropSeen(_, _)
DropSeen(rows, seen) ==
  IF rows = <<>> THEN <<>>
  ELSE IF Head(rows).Title \in seen
       THEN DropSeen(Tail(rows), seen)
       ELSE <<Head(rows)>> \o DropSeen(Tail(rows), seen \cup {Head(rows).Title})

\* df.drop_duplicates(subset=['Title'], inplace=True)
DropDuplicates(rows) == DropSeen(rows, {})

\* ------------------------------------------------------------- files
NoFile == [exists |-> FALSE, data |-> <<>>]
File(d) == [exists |-> TRUE, data |-> d]


\* ------------------------------------------------------------- read_csv
\* The texts pandas reads as a missing value, among those of the model.
NaTexts == {<<>>, NA, <<"n", "a", "n">>, <<"N", "a", "N">>}

\* A cell written by to_csv and read back by read_csv.
CsvCell(c) == IF c.kind = "str" /\ c.text \in NaTexts THEN NaN ELSE c

ReadCsv(rows) ==
  [i \in 1..Len(rows) |->
     [Title |-> CsvCell(rows[i].Title), Price |-> CsvCell(rows[i].Price),
      Rating |-> CsvCell(rows[i].Rating), Reviews |-> CsvCell(rows[i].Reviews),
      Delivery |-> CsvCell(rows[i].Delivery), Link |-> CsvCell(rows[i].Link)]]

\* ------------------------------------------------- clean_turkish_price
\* The price column holds texts (every price of the model's pages carries a
\* currency marker) or NaN.
clean_turkish_price(price) ==
  IF IsNaN(price) THEN NaN
  ELSE LET s1 == Strip(Replace(Replace(price.text, <<"T", "L">>, <<>>),
                               <<"t", "l">>, <<>>))
           s2 == Replace(s1, <<".">>, <<>>)
           s3 == Replace(s2, <<",">>, <<".">>)
       IN ParseFloat(s3)

\* ------------------------------------------------- parse_delivery_date
PENALTY_SCORE == 366

\* Letters of the model's texts, lower and upper case pairwise.  The Turkish
\* letters are written as one named character each.
LowerLetters ==
  <<"a", "b", "c", "d", "e", "f", "g", "h", "i", "j", "k", "l", "m", "n",
    "o", "p", "q", "r", "s", "t", "u", "v", "w", "x", "y", "z",
    "g_breve", "u_uml", "s_cedilla", "o_uml">>
UpperLetters ==
  <<"A", "B", "C", "D", "E", "F", "G", "H", "I", "J", "K", "L", "M", "N",
    "O", "P", "Q", "R", "S", "T", "U", "V", "W", "X", "Y", "Z",
    "G_breve", "U_uml", "S_cedilla", "O_uml">>

\* The letter class of the date pattern: a-z, A-Z and the Turkish letters
\* G-breve, U-umlaut, S-cedilla, dotted I, dotless i, O-umlaut.
DateLetters ==
  {LowerLetters[i] : i \in 1..Len(LowerLetters)}
    \cup {UpperLetters[i] : i \in 1..Len(UpperLetters)}
    \cup {"I_dot", "i_dotless"}

Upper(c) ==
  IF \E i \in 1..Len(LowerLetters) : LowerLetters[i] = c
  THEN UpperLetters[CHOOSE i \in 1..Len(LowerLetters) : LowerLetters[i] = c]
  ELSE c
Lower(c) ==
  IF \E i \in 1..Len(UpperLetters) : UpperLetters[i] = c
  THEN LowerLetters[CHOOSE i \in 1..Len(UpperLetters) : UpperLetters[i] = c]
  ELSE c

\* str.capitalize()
Capitalize(s) ==
  [i \in 1..Len(s) |-> IF i = 1 THEN Upper(s[i]) ELSE Lower(s[i])]

month_map(abbr) ==
  CASE abbr = <<"O", "c", "a">> -> 1
    [] abbr = <<"S_cedilla", "u", "b">> -> 2
    [] abbr = <<"M", "a", "r">> -> 3
    [] abbr = <<"N", "i", "s">> -> 4
    [] abbr = <<"M", "a", "y">> -> 5
    [] abbr = <<"H", "a", "z">> -> 6
    [] abbr = <<"T", "e", "m">> -> 7
    [] abbr = <<"A", "g_breve", "u">> -> 8
    [] abbr = <<"E", "y", "l">> -> 9
    [] abbr = <<"E", "k", "i">> -> 10
    [] abbr = <<"K", "a", "s">> -> 11
    [] abbr = <<"A", "r", "a">> -> 12
    [] OTHER -> 12

\* The maximal run of date letters of s that starts at i.
RECURSIVE LetterRunEnd(_, _)
LetterRunEnd(s, i) ==
  IF i <= Len(s) /\ s[i] \in DateLetters THEN LetterRunEnd(s, i + 1) ELSE i

\* re.search(r'(\d+).+?([a-zA-Z...]+)', s) as the backtracking matcher finds
\* it: the leftmost start b, for it the longest digit run b..e-1 (e from the
\* end of the run down), for it the shortest gap of at least one character
\* before a letter at l.  <<b, e, l>>, or <<>> when nothing matches.
DateMatches(s) ==
  {m \in (1..Len(s)) \X (1..(Len(s) + 1)) \X (1..Len(s)) :
     /\ m[1] < m[2] /\ m[2] < m[3]
     /\ \A i \in m[1]..(m[2] - 1) : s[i] \in Digits
     /\ s[m[3]] \in DateLetters}
DateMatch(s) ==
  LET ms == DateMatches(s)
  IN IF ms = {} THEN <<>>
     ELSE LET b == CHOOSE x \in 1..Len(s) :
                     /\ \E m \in ms : m[1] = x
                     /\ \A m \in ms : m[1] >= x
              e == CHOOSE x \in 1..(Len(s) + 1) :
                     /\ \E m \in ms : m[1] = b /\ m[2] = x
                     /\ \A m \in ms : m[1] = b => m[2] <= x
              l == CHOOSE x \in 1..Len(s) :
                     /\ <<b, e, x>> \in ms
                     /\ \A m \in ms : (m[1] = b /\ m[2] = e) => m[3] >= x
          IN <<b, e, l>>

parse_delivery_date(date_val) ==
  LET date_str == IF IsNaN(date_val) THEN <<"n", "a", "n">>
                  ELSE Strip(date_val.text)
      m == DateMatch(date_str)
  IN IF date_str = <<>> \/ date_str = <<"n", "a", "n">> \/ date_str = NA
     THEN PENALTY_SCORE
     ELSE IF m # <<>>
     THEN LET day == ParseInt(SubSeq(date_str, m[1], m[2] - 1))
              word == SubSeq(date_str, m[3], LetterRunEnd(date_str, m[3]) - 1)
              month_abbr == Take(Capitalize(word), 3)
              month_num == month_map(month_abbr)
          IN (month_num - 1) * 31 + day
     ELSE PENALTY_SCORE

\* -------------------------------------------- weighted_product_ranking
\* A weights dictionary: the four criteria, and Other for the sum of the
\* values under any other key.  Each value is the field over den; the
\* caller gives tenths.
W(p, r, n, d, o) ==
  [Price |-> p, Rating |-> r, Reviews |-> n, Delivery |-> d, Other |-> o,
   den |-> 10]

WeightVectors ==
  {W(4, 4, 2, 0, 0), W(0, 0, 0, 0, 0), W(0, 0, 0, 10, 0), W(10, 10, 10, 10, 0),
   W(5, 0, 0, 0, 5), W(2, 0, 3, 5, 0), W(0, 7, 0, 3, 0), W(-2, 4, 0, 0, 0)}

\* total_w = sum(weights.values())
total_w(w) == w.Price + w.Rating + w.Reviews + w.Delivery + w.Other

\* if total_w > 0: weights = {k: v / total_w for k, v in weights.items()}
NormalizeWeights(w) ==
  IF total_w(w) > 0 THEN [w EXCEPT !.den = total_w(w)] ELSE w

\* epsilon = 1e-9 = 1 / EpsInv
EpsInv == 1000000000

\* floor(Scale * x / (y + epsilon)) for x = num / unit and y = den / unit,
\* 0 <= num <= den.  With den = 0 the quotient is x / epsilon.  With
\* den > 0, Scale * num / den exceeds the value by less than
\* Scale * unit / EpsInv < 1, so the floor is that of Scale * num / den,
\* less one when the division is exact and num > 0.
EpsDiv(num, den, unit) ==
  IF den = 0 THEN num * Scale * (EpsInv \div unit)
  ELSE LET q == (num * Scale) \div den
           r == (num * Scale) % den
       IN IF r = 0 /\ num > 0 THEN q - 1 ELSE q

\* np.log1p of the review counts of the model's pages, in 1 / Scale.
log1p(c) ==
  CASE c = 0 -> 0 [] c = 5 -> 17917 [] c = 50 -> 39318
    [] c = 120 -> 47957 [] c = 999 -> 69077

SetMin(S) == CHOOSE x \in S : \A y \in S : x <= y
SetMax(S) == CHOOSE x \in S : \A y \in S : x >= y

\* pd.to_numeric(col, errors='coerce').fillna(0)
ToNumeric(c) == IF c.kind = "num" THEN c.val ELSE 0

\* df['Price'] = df['Price'].apply(clean_turkish_price)
CleanPrices(rows) ==
  [i \in 1..Len(rows) |->
     [rows[i] EXCEPT !.Price = clean_turkish_price(rows[i].Price)]]

\* Faulty variant of DropNaPrice: no row is dropped.
DropNaPriceNone(rows) == rows

\* df.dropna(subset=['Price'], inplace=True)
RECURSIVE DropNaPrice(_)
DropNaPrice(rows) ==
  IF rows = <<>> THEN <<>>
  ELSE (IF IsNaN(Head(rows).Price) THEN <<>> ELSE <<Head(rows)>>)
         \o DropNaPrice(Tail(rows))

\* Faulty variant of n_price: the least price, not the range, under the
\* fraction line.
n_price_over_min(x, lo, hi) == EpsDiv(hi - x, lo, Hundred)

\* (p_max - df['Price']) / (p_max - p_min + epsilon)
n_price(x, lo, hi) == EpsDiv(hi - x, hi - lo, Hundred)

\* (d_max - df['delivery_score_val']) / (d_max - d_min + epsilon)
n_delivery(x, lo, hi) == EpsDiv(hi - x, hi - lo, 1)

\* Faulty variant of n_rating: epsilon above the fraction line too.
n_rating_eps_both(x, lo, hi) ==
  IF x = hi THEN Scale ELSE ((x - lo) * Scale) \div (hi - lo)

\* (df['Rating'] - r_min) / (r_max - r_min + epsilon)
n_rating(x, lo, hi) == EpsDiv(x - lo, hi - lo, Hundred)

\* (df['log_reviews'] - rv_min) / (rv_max - rv_min + epsilon)
n_reviews(x, lo, hi) == EpsDiv(x - lo, hi - lo, Scale)

\* The frame after line 265: the numeric columns coerced, the four
\* normalised columns and Final_Score added; w is the dictionary as
\* normalised.  Final_Score is kept as the numerator of the score over
\* Scale * w.den, which is positive and the same for every row.
Scored(rows, w) ==
  LET I == 1..Len(rows)
      price(i) == ToNumeric(rows[i].Price)
      rating(i) == ToNumeric(rows[i].Rating)
      reviews(i) == ToNumeric(rows[i].Reviews)
      dscore(i) == parse_delivery_date(rows[i].Delivery)
      logrev(i) == log1p(reviews(i))
      p_min == SetMin({price(i) : i \in I})
      p_max == SetMax({price(i) : i \in I})
      d_min == SetMin({dscore(i) : i \in I})
      d_max == SetMax({dscore(i) : i \in I})
      r_min == SetMin({rating(i) : i \in I})
      r_max == SetMax({rating(i) : i \in I})
      rv_min == SetMin({logrev(i) : i \in I})
      rv_max == SetMax({logrev(i) : i \in I})
      np(i) == n_price(price(i), p_min, p_max)
      nd(i) == n_delivery(dscore(i), d_min, d_max)
      nr(i) == n_rating(rating(i), r_min, r_max)
      nv(i) == n_reviews(logrev(i), rv_min, rv_max)
  IN [i \in I |->
        [Title |-> rows[i].Title, Price |-> price(i), Rating |-> rating(i),
         Reviews |-> reviews(i), Delivery |-> rows[i].Delivery,
         Link |-> rows[i].Link, delivery_score_val |-> dscore(i),
         log_reviews |-> logrev(i),
         n_price |-> np(i), n_delivery |-> nd(i), n_rating |-> nr(i),
         n_reviews |-> nv(i),
         Final_Score |-> np(i) * w.Price + nr(i) * w.Rating
                           + nv(i) * w.Reviews + nd(i) * w.Delivery]]

\* sort_values(by='Final_Score', ascending=False): on frames this short the
\* sort keeps rows of equal score in their order.
RECURSIVE InsertByScore(_, _)
InsertByScore(row, sorted) ==
  IF sorted = <<>> THEN <<row>>
  ELSE IF row.Final_Score >= Head(sorted).Final_Score
       THEN <<row>> \o sorted
       ELSE <<Head(sorted)>> \o InsertByScore(row, Tail(sorted))
\* Faulty variant of SortByScore: ascending=True.
RECURSIVE SortByScoreAscending(_)
SortByScoreAscending(rows) ==
  IF rows = <<>> THEN <<>>
  ELSE LET rest == SortByScoreAscending(Tail(rows))
           lower == SelectSeq(rest, LAMBDA r : r.Final_Score <= Head(rows).Final_Score)
           higher == SelectSeq(rest, LAMBDA r : r.Final_Score > Head(rows).Final_Score)
       IN lower \o <<Head(rows)>> \o higher
RECURSIVE SortByScore(_)
SortByScore(rows) ==
  IF rows = <<>> THEN <<>>
  ELSE InsertByScore(Head(rows), SortByScore(Tail(rows)))

\* .head(3) and the seven columns returned.
TopK == 3
Top3(rows) ==
  LET top == Take(SortByScore(rows), TopK)
  IN [i \in 1..Len(top) |->
        [Title |-> top[i].Title, Price |-> top[i].Price,
         Rating |-> top[i].Rating, Reviews |-> top[i].Reviews,
         Link |-> top[i].Link, Delivery |-> top[i].Delivery,
         Final_Score |-> top[i].Final_Score]]

\* What a tool returns: a text, or (the ranking) a list of records.
Text(t) == [kind |-> "text", text |-> t, rows |-> <<>>]
List(r) == [kind |-> "list", text |-> "", rows |-> r]
NoRet == [kind |-> "none", text |-> "", rows |-> <<>>]

\* The frame weighted_product_ranking scores: the file as read, the prices
\* cleaned, the rows without a price dropped.
Candidates(file) == DropNaPrice(CleanPrices(ReadCsv(file.data)))

\* The scored frame of a call; empty when the call returns before scoring.
ScoredFrame(file, w) ==
  IF ~file.exists \/ ReadCsv(file.data) = <<>> THEN <<>>
  ELSE Scored(Candidates(file), w)

\* The value weighted_product_ranking returns for a file and the weights.
RankResult(file, w) ==
  IF ~file.exists THEN Text("Error: Data source file not found.")
  ELSE IF ReadCsv(file.data) = <<>> THEN Text("Error: DataFrame is empty.")
  ELSE List(Top3(ScoredFrame(file, w)))

\* ------------------------------------------------- fetch_search_results
\* Faulty variant of Attempts: one attempt more.
AttemptsFour == 3 + 1
\* for attempt in range(3)
Attempts == 3
\* len(user_agents)
NumAgents == 3

Outcomes == {"200", "status", "exception"}

\* The outcomes of the GETs of a call, in order.
GetOutcomes(tr) == SelectSeq(tr, LAMBDA e : e \in Outcomes)

\* Faulty variant of FailureText: a text per kind of failure.
FailureTextByKind(tr) ==
  IF \A i \in 1..Len(GetOutcomes(tr)) : GetOutcomes(tr)[i] = "status"
  THEN "Error: The server answered with a non-2xx status."
  ELSE "Error: Failed to retrieve data after multiple attempts."

\* The text returned after the loop.
FailureText(tr) == "Error: Failed to retrieve data after multiple attempts."

SuccessText ==
  "Success: HTML content saved to 'last_search.html'. You can now parse it."

\* ---------------------------------------------------------------- state
VARIABLES
  pc,             \* where the chain is: idle, loop, agent, get (inside
                  \* fetch_search_results), fetched, parsed, ranked
  attempt,        \* the loop variable of fetch_search_results
  trace,          \* what the current fetch call did: sleep, agent, outcomes
  current_agent,  \* index of the User-Agent chosen last
  fetchRet,       \* what fetch_search_results returned
  htmlFile,       \* last_search.html
  csvFile,        \* products_table.csv
  parseRet,       \* what parse_amazon_results returned
  weights,        \* the weights of the ranking call, as normalised
  df,             \* the scored frame of the ranking call
  rankRet,        \* what weighted_product_ranking returned
  fetched,        \* history: the markup the current run's fetch received
  failures        \* history: <<kind of failed call, text returned>>

vars == <<pc, attempt, trace, current_agent, fetchRet, htmlFile, csvFile,
          parseRet, weights, df, rankRet, fetched, failures>>

NotFetched == [got |-> FALSE, page |-> <<>>]
Fetched(page) == [got |-> TRUE, page |-> page]

\* Which kind of failing attempt sequence a call was.
FailureKind(tr) ==
  LET o == GetOutcomes(tr)
  IN IF \A i \in 1..Len(o) : o[i] = "exception" THEN "exhausted retries"
     ELSE IF \A i \in 1..Len(o) : o[i] = "status" THEN "non-2xx status"
     ELSE "mixed"

\* A call of fetch_search_results begins; the values of the run before are
\* gone.
FetchCallFrom(S) ==
  /\ pc \in S
  /\ pc' = "loop"
  /\ attempt' = 0
  /\ trace' = <<>>
  /\ fetchRet' = NoRet
  /\ parseRet' = NoRet
  /\ rankRet' = NoRet
  /\ df' = <<>>
  /\ weights' = W(0, 0, 0, 0, 0)
  /\ fetched' = NotFetched
  /\ UNCHANGED <<current_agent, htmlFile, csvFile, failures>>

\* The chain: a run begins with the fetch.
FetchCall == FetchCallFrom({"idle", "ranked"})
\* The tool called again after it returned.
FetchAgain == FetchCallFrom({"idle", "fetched"})

\* Top of the loop body: the backoff sleep of a retry.
FetchEnter ==
  /\ pc = "loop"
  /\ attempt < Attempts
  /\ trace' = IF attempt > 0 THEN Append(trace, "sleep") ELSE trace
  /\ pc' = "agent"
  /\ UNCHANGED <<attempt, current_agent, fetchRet, htmlFile, csvFile,
                 parseRet, weights, df, rankRet, fetched, failures>>

\* current_agent = random.choice(user_agents)
FetchChooseAgent ==
  /\ pc = "agent"
  /\ \E a \in 1..NumAgents : current_agent' = a
  /\ trace' = Append(trace, "agent")
  /\ pc' = "get"
  /\ UNCHANGED <<attempt, fetchRet, htmlFile, csvFile, parseRet, weights, df,
                 rankRet, fetched, failures>>

\* session.get: a 200 answer is saved and returned; any other status falls
\* through and an exception is caught, both to the next iteration.
FetchGet ==
  /\ pc = "get"
  /\ \E o \in Outcomes :
       /\ trace' = Append(trace, o)
       /\ IF o = "200"
          THEN /\ \E page \in ServedPages :
                    /\ htmlFile' = File(page)
                    /\ fetched' = Fetched(page)
               /\ fetchRet' = Text(SuccessText)
               /\ pc' = "fetched"
               /\ attempt' = attempt
          ELSE /\ attempt' = attempt + 1
               /\ pc' = "loop"
               /\ UNCHANGED <<htmlFile, fetched, fetchRet>>
  /\ UNCHANGED <<current_agent, csvFile, parseRet, weights, df, rankRet,
                 failures>>

\* The loop ran out: the error text is returned.
FetchExhausted ==
  /\ pc = "loop"
  /\ ~(attempt < Attempts)
  /\ fetchRet' = Text(FailureText(trace))
  /\ failures' = failures \cup {<<FailureKind(trace), FailureText(trace)>>}
  /\ pc' = "fetched"
  /\ UNCHANGED <<attempt, trace, current_agent, htmlFile, csvFile, parseRet,
                 weights, df, rankRet, fetched>>

\* parse_amazon_results("last_search.html")
Parse ==
  /\ pc = "fetched"
  /\ pc' = "parsed"
  /\ IF ~htmlFile.exists
     THEN /\ parseRet' = Text("Error: HTML file not found. Please fetch results first.")
          /\ UNCHANGED csvFile
     ELSE LET rows == DropDuplicates(ExtractAll(htmlFile.data))
          IN /\ csvFile' = IF rows # <<>> THEN File(rows) ELSE csvFile
             /\ parseRet' = Text("ACTION REQUIRED: You MUST now call 'weighted_product_ranking'.")
  /\ UNCHANGED <<attempt, trace, current_agent, fetchRet, htmlFile, weights,
                 df, rankRet, fetched, failures>>

\* weighted_product_ranking(weights, "products_table.csv")
Rank ==
  /\ pc = "parsed"
  /\ pc' = "ranked"
  /\ \E w \in WeightVectors :
       /\ weights' = NormalizeWeights(w)
       /\ df' = ScoredFrame(csvFile, NormalizeWeights(w))
       /\ rankRet' = RankResult(csvFile, NormalizeWeights(w))
  /\ UNCHANGED <<attempt, trace, current_agent, fetchRet, htmlFile, csvFile,
                 parseRet, fetched, failures>>

\* ------------------------------------------------------- specifications
\* The chain of amazon_agent.py, run after run, from a directory without
\* hand-off files.
Init ==
  /\ pc = "idle"
  /\ attempt = 0
  /\ trace = <<>>
  /\ current_agent = 1
  /\ fetchRet = NoRet
  /\ htmlFile = NoFile
  /\ csvFile = NoFile
  /\ parseRet = NoRet
  /\ weights = W(0, 0, 0, 0, 0)
  /\ df = <<>>
  /\ rankRet = NoRet
  /\ fetched = NotFetched
  /\ failures = {}

Next ==
  \/ FetchCall
  \/ FetchEnter
  \/ FetchChooseAgent
  \/ FetchGet
  \/ FetchExhausted
  \/ Parse
  \/ Rank

Spec == Init /\ [][Next]_vars

\* fetch_search_results alone, call after call.  Every step of a call is
\* taken in the end: the sleep is bounded, the GET has a timeout.
FetchNext ==
  \/ FetchAgain
  \/ FetchEnter
  \/ FetchChooseAgent
  \/ FetchGet
  \/ FetchExhausted

FetchSpec ==
  /\ Init
  /\ [][FetchNext]_vars
  /\ WF_vars(FetchEnter)
  /\ WF_vars(FetchChooseAgent)
  /\ WF_vars(FetchGet)
  /\ WF_vars(FetchExhausted)

\* parse_amazon_results and weighted_product_ranking on any saved page of
\* up to MaxItems containers (or none), with no table, or a table of no
\* rows, left in the directory.
RankInit ==
  /\ pc = "fetched"
  /\ attempt = 0
  /\ trace = <<>>
  /\ current_agent = 1
  /\ fetchRet = NoRet
  /\ htmlFile \in {NoFile} \cup {File(p) : p \in Pages}
  /\ csvFile \in {NoFile, File(<<>>)}
  /\ parseRet = NoRet
  /\ weights = W(0, 0, 0, 0, 0)
  /\ df = <<>>
  /\ rankRet = NoRet
  /\ fetched = NotFetched
  /\ failures = {}

RankNext ==
  \/ Parse
  \/ Rank

RankSpec == RankInit /\ [][RankNext]_vars

\* ------------------------------------------------------------- claims
Busy == pc \in {"loop", "agent", "get"}
Returned == pc = "fetched"
Failed(o) == o \in {"status", "exception"}
ErrorText == "Error: Failed to retrieve data after multiple attempts."
\* A WeightVector of the spec's data model: no negative weight.
NonNegative(w) ==
  w.Price >= 0 /\ w.Rating >= 0 /\ w.Reviews >= 0 /\ w.Delivery >= 0 /\ w.Other >= 0

\* What a call of fetch_search_results has done so far is a prefix of
\* agent, GET, then per retry sleep, agent, GET: at most three GETs, none
\* after a 200, which is returned as the success at once; the error is
\* returned only after three failed GETs; nothing but a text is returned.
FetchShape ==
  LET o == GetOutcomes(trace)
  IN /\ Len(o) <= 3
     /\ \A i \in 1..(Len(o) - 1) : Failed(o[i])
     /\ \A k \in 1..Len(trace) :
          /\ trace[k] \in Outcomes => k > 1 /\ trace[k - 1] = "agent"
          /\ trace[k] = "agent" => k = 1 \/ trace[k - 1] = "sleep"
          /\ trace[k] = "sleep" => k > 1 /\ Failed(trace[k - 1])
     /\ (o # <<>> /\ o[Len(o)] = "200")
          <=> (Returned /\ fetchRet = Text(SuccessText))
     /\ (Returned /\ fetchRet # Text(SuccessText))
          => /\ fetchRet = Text(ErrorText)
             /\ Len(o) = 3
             /\ \A i \in 1..3 : Failed(o[i])
     /\ Busy => fetchRet = NoRet
     /\ fetchRet.kind \in {"none", "text"}

C2_Distinguished ==
  \A p \in failures, q \in failures :
    (p[1] = "exhausted retries" /\ q[1] = "non-2xx status") => p[2] # q[2]

\* C2 amended: every failed call returns the one text "Error: Failed to
\* retrieve data after multiple attempts.", whatever its attempts ended in.
C2_OneFailureText ==
  /\ \A p \in failures : p[2] = ErrorText
  /\ (Returned /\ Len(GetOutcomes(trace)) = 3
        /\ \A i \in 1..3 : Failed(GetOutcomes(trace)[i]))
       => fetchRet = Text(ErrorText)

\* C2 witness: both kinds of failed call have returned.
C2_Witness ==
  /\ \E p \in failures : p[1] = "exhausted retries"
  /\ \E p \in failures : p[1] = "non-2xx status"

\* The records a ranking call reads, and those of the markup the run's own
\* fetch received.
RankedRecords == IF csvFile.exists THEN ReadCsv(csvFile.data) ELSE <<>>
ExtractedThisRun ==
  IF fetched.got THEN ReadCsv(DropDuplicates(ExtractAll(fetched.page)))
  ELSE <<>>

\* C3 as claimed: in every run the records ranked are those extracted from
\* the markup fetched in that run (none when the fetch failed or the page
\* has no listing container).
C3_FreshPerRun ==
  (pc = "ranked" /\ NonNegative(weights)) => RankedRecords = ExtractedThisRun

\* The page parsed and the table written from it.
ParsedPage == pc \in {"parsed", "ranked"} /\ htmlFile.exists /\ htmlFile.data # <<>>
FirstWithTitle(recs, t) ==
  SetMin({k \in 1..Len(recs) : recs[k].Title = t})

\* C4: the table written has no two rows of one title; each row is the
\* record of the first container with its title; each title of the page is
\* in the table; the rows are in document order.
C4_Dedup ==
  ParsedPage =>
    LET recs == ExtractAll(htmlFile.data)
        out == csvFile.data
    IN /\ csvFile.exists
       /\ \A i \in 1..Len(out), j \in 1..Len(out) :
            i # j => out[i].Title # out[j].Title
       /\ \A k \in 1..Len(recs) : \E i \in 1..Len(out) : out[i].Title = recs[k].Title
       /\ \A i \in 1..Len(out) :
            /\ \E k \in 1..Len(recs) : recs[k].Title = out[i].Title
            /\ out[i] = recs[FirstWithTitle(recs, out[i].Title)]
       /\ \A i \in 1..Len(out), j \in 1..Len(out) :
            i < j => FirstWithTitle(recs, out[i].Title)
                       < FirstWithTitle(recs, out[j].Title)

\* C4 witness: a page whose first and last containers share a title and
\* differ in price, parsed into two rows.
C4_Witness ==
  /\ ParsedPage
  /\ Len(htmlFile.data) = 3
  /\ ExtractRecord(htmlFile.data[1]).Title = ExtractRecord(htmlFile.data[3]).Title
  /\ ExtractRecord(htmlFile.data[1]).Price # ExtractRecord(htmlFile.data[3]).Price
  /\ Len(csvFile.data) = 2

\* C5 as claimed: with no table, a table of no rows, or no row with a
\* parseable price, the ranking returns an error text, never a list.
C5_DataAvailability ==
  (pc = "ranked" /\ NonNegative(weights)
     /\ (~csvFile.exists \/ Candidates(csvFile) = <<>>))
    => rankRet.kind = "text"

\* The rows of the table read whose price does not parse, and the prices
\* and ratings of the others.
TableRows == ReadCsv(csvFile.data)
BadPrice(row) == IsNaN(clean_turkish_price(row.Price))
GoodRows == {i \in 1..Len(TableRows) : ~BadPrice(TableRows[i])}
GoodPrices == {clean_turkish_price(TableRows[i].Price).val : i \in GoodRows}
GoodRatings == {ToNumeric(TableRows[i].Rating) : i \in GoodRows}
Titles(rows) == {rows[k].Title : k \in 1..Len(rows)}

\* C6: a record whose price does not parse is in neither the scored frame
\* nor the list returned, whatever the weights and its other values; the
\* frame holds exactly the other records, and their n_price and n_rating
\* are normalised over the minimum and maximum of those records alone.
C6_PriceFilter ==
  (pc = "ranked" /\ csvFile.exists /\ TableRows # <<>>) =>
    /\ \A i \in 1..Len(TableRows) :
         BadPrice(TableRows[i]) =>
           /\ TableRows[i].Title \notin Titles(df)
           /\ TableRows[i].Title \notin Titles(rankRet.rows)
    /\ Titles(df) = {TableRows[i].Title : i \in GoodRows}
    /\ Len(df) = Cardinality(GoodRows)
    /\ \A k \in 1..Len(df) :
         /\ df[k].n_price * (SetMax(GoodPrices) - SetMin(GoodPrices))
              <= (SetMax(GoodPrices) - df[k].Price) * Scale
         /\ df[k].n_rating * (SetMax(GoodRatings) - SetMin(GoodRatings))
              <= (df[k].Rating - SetMin(GoodRatings)) * Scale
         /\ (df[k].Price = SetMin(GoodPrices) /\ Cardinality(GoodPrices) > 1)
              => df[k].n_price = Scale - 1
         /\ (df[k].Rating = SetMax(GoodRatings) /\ Cardinality(GoodRatings) > 1)
              => df[k].n_rating = Scale - 1

\* C6 witness: a ranking by rating and delivery of three records, the one
\* with the best rating and a parsed date having no price.
C6_Witness ==
  /\ pc = "ranked"
  /\ csvFile.exists
  /\ Len(TableRows) = 3
  /\ Cardinality(GoodRows) = 2
  /\ \E i \in 1..3 :
       /\ BadPrice(TableRows[i])
       /\ \A j \in GoodRows : ToNumeric(TableRows[j].Rating)
                                < ToNumeric(TableRows[i].Rating)
  /\ weights = NormalizeWeights(W(0, 7, 0, 3, 0))
  /\ Len(rankRet.rows) = 2

UsedWeights(w) == w.Price + w.Rating + w.Reviews + w.Delivery
Column(rows, f(_)) == {f(rows[k]) : k \in 1..Len(rows)}
PriceOf(r) == r.Price
RatingOf(r) == r.Rating
LogReviewsOf(r) == r.log_reviews
DeliveryScoreOf(r) == r.delivery_score_val

\* C7: with non-negative weights every n_price, n_rating, n_reviews and
\* n_delivery of the scored frame lies in [0, 1] and every Final_Score in
\* [0, sum of the four weights used] (score and sum both over weights.den,
\* the score in 1 / Scale).
C7_ScoreBounds ==
  (pc = "ranked" /\ NonNegative(weights)) =>
    \A k \in 1..Len(df) :
      /\ df[k].n_price \in 0..Scale
      /\ df[k].n_rating \in 0..Scale
      /\ df[k].n_reviews \in 0..Scale
      /\ df[k].n_delivery \in 0..Scale
      /\ df[k].Final_Score >= 0
      /\ df[k].Final_Score <= Scale * UsedWeights(weights)

\* C7 witness: three candidates that differ in every criterion, scored
\* with four positive weights.
C7_Witness ==
  /\ pc = "ranked"
  /\ Len(df) = 3
  /\ Cardinality(Column(df, PriceOf)) = 3
  /\ Cardinality(Column(df, RatingOf)) = 3
  /\ Cardinality(Column(df, LogReviewsOf)) = 3
  /\ Cardinality(Column(df, DeliveryScoreOf)) = 3
  /\ weights = NormalizeWeights(W(10, 10, 10, 10, 0))
  /\ \E k \in 1..3 : df[k].Final_Score > 0

\* The spec's example: A, B and C with the default weights.
ExampleRows ==
  <<[Title |-> Str(<<"A">>), Price |-> Str(<<"1","9","9",",","9","9"," ","T","L">>),
     Rating |-> Num(450), Reviews |-> Num(120),
     Delivery |-> Str(<<"1", "5", " ", "O", "c", "a">>)],
    [Title |-> Str(<<"B">>), Price |-> Str(<<"1","4","9",",","9","9"," ","T","L">>),
     Rating |-> Num(380), Reviews |-> Num(50),
     Delivery |-> Str(<<"2", "0", " ", "O", "c", "a">>)],
    [Title |-> Str(<<"C">>), Price |-> Str(<<"2","9","9",",","9","9"," ","T","L">>),
     Rating |-> Num(490), Reviews |-> Num(5),
     Delivery |-> Str(NA)]>>
WithoutLink(r) ==
  [Title |-> r.Title, Price |-> r.Price, Rating |-> r.Rating,
   Reviews |-> r.Reviews, Delivery |-> r.Delivery]
ExampleRanked ==
  /\ pc = "ranked"
  /\ csvFile.exists
  /\ [i \in 1..Len(csvFile.data) |-> WithoutLink(csvFile.data[i])] = ExampleRows
  /\ weights = NormalizeWeights(W(4, 4, 2, 0, 0))
TitlesInOrder(rows) == [k \in 1..Len(rows) |-> rows[k].Title.text]

\* C8 as claimed: the example is returned in the order B, A, C.
C8_ExampleOrderBAC ==
  ExampleRanked => TitlesInOrder(rankRet.rows) = <<<<"B">>, <<"A">>, <<"C">>>>

\* C8 amended: the example is returned in the order A, B, C, with
\* Final_Score of A > Final_Score of B > Final_Score of C.
C8_ExampleOrderABC ==
  ExampleRanked =>
    /\ TitlesInOrder(rankRet.rows) = <<<<"A">>, <<"B">>, <<"C">>>>
    /\ rankRet.rows[1].Final_Score > rankRet.rows[2].Final_Score
    /\ rankRet.rows[2].Final_Score > rankRet.rows[3].Final_Score

\* C8 witness: the example has been ranked.
C8_Witness == ExampleRanked /\ rankRet.kind = "list" /\ Len(rankRet.rows) = 3

\* Whether the date pattern matches the delivery text of a row.
DateParsed(r) ==
  /\ ~IsNaN(r.Delivery)
  /\ Strip(r.Delivery.text) \notin {<<>>, NA, <<"n", "a", "n">>}
  /\ DateMatch(Strip(r.Delivery.text)) # <<>>

\* C9 as claimed: an unparsed date scores 366, a parsed one less than 366,
\* and no candidate with an unparsed date has a higher n_delivery than one
\* with a parsed date.
C9_PenaltyWorst ==
  (pc = "ranked" /\ NonNegative(weights)) =>
    \A i \in 1..Len(df) :
      /\ ~DateParsed(df[i]) => df[i].delivery_score_val = 366
      /\ DateParsed(df[i]) => df[i].delivery_score_val < 366
      /\ \A j \in 1..Len(df) :
           (~DateParsed(df[i]) /\ DateParsed(df[j]))
             => df[i].n_delivery <= df[j].n_delivery

Tied(rows, f(_)) == Cardinality(Column(rows, f)) = 1
\* Within a hundredth of 1.0.
NearOne(n) == n >= Scale - Scale \div 100

\* C10 as claimed: a criterion tied over all candidates is normalised to a
\* value near 1.0 for each of them.
C10_TieNearOne ==
  (pc = "ranked" /\ NonNegative(weights)) =>
    \A k \in 1..Len(df) :
      /\ Tied(df, PriceOf) => NearOne(df[k].n_price)
      /\ Tied(df, RatingOf) => NearOne(df[k].n_rating)
      /\ Tied(df, LogReviewsOf) => NearOne(df[k].n_reviews)
      /\ Tied(df, DeliveryScoreOf) => NearOne(df[k].n_delivery)

\* C10 amended: a criterion tied over all candidates is normalised to
\* exactly 0 for each of them (0 / epsilon).
C10_TieZero ==
  pc = "ranked" =>
    \A k \in 1..Len(df) :
      /\ Tied(df, PriceOf) => df[k].n_price = 0
      /\ Tied(df, RatingOf) => df[k].n_rating = 0
      /\ Tied(df, LogReviewsOf) => df[k].n_reviews = 0
      /\ Tied(df, DeliveryScoreOf) => df[k].n_delivery = 0

\* C10 witness: two candidates tied in all four criteria have been scored.
C10_Witness ==
  /\ pc = "ranked"
  /\ Len(df) = 2
  /\ Tied(df, PriceOf) /\ Tied(df, RatingOf)
  /\ Tied(df, LogReviewsOf) /\ Tied(df, DeliveryScoreOf)

====
